---- MODULE Spec2Model ----
(***************************************************************************)
(* Model of src/knowledge/minesweeper.py: the Minesweeper board, the       *)
(* Sentence knowledge unit and the MinesweeperAI inference engine.         *)
(* Cells are pairs <<i, j>> with 0 <= i < Height and 0 <= j < Width.       *)
(* A Sentence is a record [cells |-> set of cells, count |-> integer].     *)
(***************************************************************************)
EXTENDS Integers, FiniteSets, Sequences, TLC

\* Bounds of the model.
Height == 3
Width == 3
MaxMines == 3
MaxCalls == 4
MaxAnyCalls == 2
MaxCount == 1
MaxSentenceOps == 3
MaxFree == 4

VARIABLES board, moves_made, safes, mines, knowledge, last, calls,
          op, ret, pc, game_mines, mines_found, target, sen, sen_log

vars == <<board, moves_made, safes, mines, knowledge, last, calls,
          op, ret, pc, game_mines, mines_found, target, sen, sen_log>>

\* The belief state of the agent (MinesweeperAI's four attributes).
aiVars == <<moves_made, safes, mines, knowledge>>

\* The attributes of the Minesweeper object.
gameVars == <<board, game_mines, mines_found, target>>

\* The in-bounds cells of a Height x Width grid.
Cells == (0 .. Height - 1) \X (0 .. Width - 1)

NoCell == <<-1, -1>>

\* The value of an attribute that has not been assigned yet.
Unset == {NoCell}

Max(a, b) == IF a >= b THEN a ELSE b

Min(a, b) == IF a <= b THEN a ELSE b

(***************************************************************************)
(* Minesweeper (the board).  board is the set of cells (i, j) with         *)
(* board[i][j] = True.                                                     *)
(***************************************************************************)
is_mine(cell) == cell \in board

\* The test of line 70 left out: the cell is counted as its own neighbour.
nearby_mines_self(cell) ==
    Cardinality({ c \in ((cell[1] - 1) .. (cell[1] + 1)) \X ((cell[2] - 1) .. (cell[2] + 1)) :
                    /\ 0 <= c[1] /\ c[1] < Height /\ 0 <= c[2] /\ c[2] < Width
                    /\ c \in board })

nearby_mines(cell) ==
    Cardinality({ c \in ((cell[1] - 1) .. (cell[1] + 1)) \X ((cell[2] - 1) .. (cell[2] + 1)) :
                    /\ c # cell
                    /\ 0 <= c[1] /\ c[1] < Height /\ 0 <= c[2] /\ c[2] < Width
                    /\ c \in board })

(***************************************************************************)
(* Sentence.                                                               *)
(***************************************************************************)
Sentence(cells, count) == [cells |-> cells, count |-> count]

known_mines(s) == IF s.count = Cardinality(s.cells) THEN s.cells ELSE {}

known_safes(s) == IF s.count = 0 THEN s.cells ELSE {}

\* The test of line 127 left out: the count drops even when the cell is absent.
SentenceMarkMineUnguarded(s, cell) ==
    [cells |-> s.cells \ {cell}, count |-> s.count - 1]

SentenceMarkMine(s, cell) ==
    IF cell \in s.cells
    THEN [cells |-> s.cells \ {cell}, count |-> s.count - 1]
    ELSE s

SentenceMarkSafe(s, cell) ==
    IF cell \in s.cells
    THEN [cells |-> s.cells \ {cell}, count |-> s.count]
    ELSE s

(***************************************************************************)
(* MinesweeperAI.add_knowledge, step by step.                              *)
(***************************************************************************)
\* Lines 202-204: the cells adj visited by the two loops, other than cell.
Neighbours(cell) ==
    { adj \in (Max(0, cell[1] - 1) .. (Min(Height, cell[1] + 2) - 1))
              \X (Max(0, cell[2] - 1) .. (Min(Width, cell[2] + 2) - 1)) :
        adj # cell }

\* Lines 202-207: the neighbours of cell, clipped to the board, that are
\* neither the cell itself nor already known safe or known mine.
NewSentenceCells(cell, sf, mn) ==
    { adj \in (Max(0, cell[1] - 1) .. (Min(Height, cell[1] + 2) - 1))
              \X (Max(0, cell[2] - 1) .. (Min(Width, cell[2] + 2) - 1)) :
        adj # cell /\ adj \notin sf /\ adj \notin mn }

\* Lines 214-219: the union of known_mines() over all sentences.
AllKnownMines(K) == UNION { known_mines(K[k]) : k \in DOMAIN K }

AllKnownSafes(K) == UNION { known_safes(K[k]) : k \in DOMAIN K }

\* Lines 214-216: after the loop, known_mines / known_safes hold the values
\* computed for the last sentence of the list.
LoopKnownMines(K) == known_mines(K[Len(K)])

\* The safe cells of the first sentence instead of the last one.
LoopKnownSafesFirst(K) == known_safes(K[1])

LoopKnownSafes(K) == known_safes(K[Len(K)])

\* Lines 223-224: sen.mark_mine(mine) for every sentence.
MarkMineAll(K, mine) == [k \in DOMAIN K |-> SentenceMarkMine(K[k], mine)]

\* Lines 227-228: sen.mark_safe(safe) for every sentence.
MarkSafeAll(K, safe) == [k \in DOMAIN K |-> SentenceMarkSafe(K[k], safe)]

RECURSIVE PropagateMines(_, _)
\* Lines 222-224: for mine in known_mines: for sen in knowledge: mark_mine.
PropagateMines(K, S) ==
    IF S = {} THEN K
    ELSE LET mine == CHOOSE c \in S : TRUE
         IN PropagateMines(MarkMineAll(K, mine), S \ {mine})

RECURSIVE PropagateSafes(_, _)
\* Lines 226-228: for safe in known_safes: for sen in knowledge: mark_safe.
PropagateSafes(K, S) ==
    IF S = {} THEN K
    ELSE LET safe == CHOOSE c \in S : TRUE
         IN PropagateSafes(MarkSafeAll(K, safe), S \ {safe})

\* Line 196: self.moves_made.add(cell).
AddMove(mv, cell) == mv \cup {cell}

\* A played cell that is never recorded as safe.
AddSafeDropped(sf, cell) == sf

\* Line 197: self.safes.add(cell).
AddSafe(sf, cell) == sf \cup {cell}

\* Lines 163-170: MinesweeperAI.mark_mine(cell) adds the cell to mines and
\* marks it as a mine in every sentence.
mark_mine(cell) ==
    /\ mines' = mines \cup {cell}
    /\ knowledge' = MarkMineAll(knowledge, cell)
    /\ UNCHANGED <<moves_made, safes, board>>

\* Lines 172-179: MinesweeperAI.mark_safe(cell) adds the cell to safes and
\* marks it as safe in every sentence.
mark_safe(cell) ==
    /\ safes' = safes \cup {cell}
    /\ knowledge' = MarkSafeAll(knowledge, cell)
    /\ UNCHANGED <<moves_made, mines, board>>

add_knowledge(cell, count) ==
    LET moves1 == AddMove(moves_made, cell)
        safes1 == AddSafe(safes, cell)
        new_sentence == Sentence(NewSentenceCells(cell, safes1, mines), count)
        K1 == Append(knowledge, new_sentence)
        mines2 == mines \cup AllKnownMines(K1)
        safes2 == safes1 \cup AllKnownSafes(K1)
        K2 == PropagateMines(K1, LoopKnownMines(K1))
        K3 == PropagateSafes(K2, LoopKnownSafes(K1))
    IN /\ moves_made' = moves1
       /\ safes' = safes2
       /\ mines' = mines2
       /\ knowledge' = K3
       /\ last' = cell
       /\ calls' = calls + 1
       /\ UNCHANGED board

(***************************************************************************)
(* MinesweeperAI.make_safe_move and make_random_move.  None is NoCell.     *)
(***************************************************************************)
\* Lines 240-245: the first cell of safes, in the iteration order of the set,
\* that is not in moves_made.  The order of a set is not specified, so the
\* operator gives every value the call may return.
\* The membership test of line 241 left out.
make_safe_move_unchecked(sf, mv) == IF sf # {} THEN sf ELSE { NoCell }

make_safe_move(sf, mv) ==
    IF \E move \in sf : move \notin mv
    THEN { move \in sf : move \notin mv }
    ELSE { NoCell }

\* The test of line 258 without its second half: known mines are eligible.
RandomMoveEligibleMines(mv, mn) == { move \in Cells : move \notin mv }

\* The test of line 258 without its first half: played cells are eligible.
RandomMoveEligiblePlayed(mv, mn) == { move \in Cells : move \notin mn }

\* Line 258: the test a cell must pass to be returned.
RandomMoveEligible(mv, mn) == { move \in Cells : move \notin mv /\ move \notin mn }

\* Lines 255-256: (i, j) is visited before (k, l) by the nested loops.
ScannedBefore(c, d) == c[1] < d[1] \/ (c[1] = d[1] /\ c[2] <= d[2])

\* Lines 255-262: the first cell, row by row, that passes the test.
make_random_move(mv, mn) ==
    IF RandomMoveEligible(mv, mn) = {}
    THEN NoCell
    ELSE CHOOSE move \in RandomMoveEligible(mv, mn) :
             \A d \in RandomMoveEligible(mv, mn) : ScannedBefore(move, d)

(***************************************************************************)
(* Specifications.                                                         *)
(***************************************************************************)
\* A fresh agent (MinesweeperAI.__init__) next to a board with some mines.
Init ==
    /\ board \in { b \in SUBSET Cells : Cardinality(b) <= MaxMines }
    /\ moves_made = {}
    /\ safes = {}
    /\ mines = {}
    /\ knowledge = << >>
    /\ last = NoCell
    /\ calls = 0
    /\ op = "init"
    /\ ret = NoCell
    /\ pc = "idle"
    /\ game_mines = board
    /\ mines_found = {}
    /\ target = Cardinality(board)
    /\ sen = Sentence({}, 0)
    /\ sen_log = << >>

\* A well-formed call: a truthful observation of a non-mine cell that has
\* not been played yet.
Observe ==
    /\ calls < MaxCalls
    /\ \E cell \in Cells :
         /\ ~ is_mine(cell)
         /\ cell \notin moves_made
         /\ add_knowledge(cell, nearby_mines(cell))
    /\ op' = "add_knowledge"
    /\ ret' = NoCell
    /\ UNCHANGED <<pc, game_mines, mines_found, target, sen, sen_log>>

Next == Observe

Spec == Init /\ [][Next]_vars

\* Any call: an arbitrary in-bounds cell with a count that is small or is the
\* number of its neighbours.
InitAny ==
    /\ board = {}
    /\ moves_made = {}
    /\ safes = {}
    /\ mines = {}
    /\ knowledge = << >>
    /\ last = NoCell
    /\ calls = 0
    /\ op = "init"
    /\ ret = NoCell
    /\ pc = "idle"
    /\ game_mines = {}
    /\ mines_found = {}
    /\ target = 0
    /\ sen = Sentence({}, 0)
    /\ sen_log = << >>

AnyCall ==
    /\ calls < MaxAnyCalls
    /\ \E cell \in Cells :
         \E count \in (0 .. MaxCount) \cup {Cardinality(Neighbours(cell))} :
             add_knowledge(cell, count)
    /\ op' = "add_knowledge"
    /\ ret' = NoCell
    /\ UNCHANGED <<pc, game_mines, mines_found, target, sen, sen_log>>

\* A caller's mark_mine(cell) in any state; calls counts the calls that
\* change the agent, last stays the cell of the latest add_knowledge.
MarkMineAny ==
    /\ calls < MaxAnyCalls
    /\ \E cell \in Cells : mark_mine(cell)
    /\ calls' = calls + 1
    /\ op' = "mark_mine"
    /\ ret' = NoCell
    /\ UNCHANGED <<last, pc, game_mines, mines_found, target, sen, sen_log>>

\* A caller's mark_safe(cell) in any state.
MarkSafeAny ==
    /\ calls < MaxAnyCalls
    /\ \E cell \in Cells : mark_safe(cell)
    /\ calls' = calls + 1
    /\ op' = "mark_safe"
    /\ ret' = NoCell
    /\ UNCHANGED <<last, pc, game_mines, mines_found, target, sen, sen_log>>

\* A query changes no attribute of the agent, so a query made right after
\* another query reaches no state and checks no step that a query made right
\* after a call (or after construction) does not: those repeats are left out.
AfterCall == op \in {"init", "add_knowledge", "mark_mine", "mark_safe"}

\* A call of make_safe_move() in any state.
SafeMoveQuery ==
    /\ AfterCall
    /\ ret' \in make_safe_move(safes, moves_made)
    /\ op' = "make_safe_move"
    /\ UNCHANGED <<aiVars, gameVars, last, calls, pc, sen, sen_log>>

\* A call of make_random_move() in any state.
RandomMoveQuery ==
    /\ AfterCall
    /\ ret' = make_random_move(moves_made, mines)
    /\ op' = "make_random_move"
    /\ UNCHANGED <<aiVars, gameVars, last, calls, pc, sen, sen_log>>

NextAny ==
    \/ AnyCall
    \/ MarkMineAny
    \/ MarkSafeAny
    \/ SafeMoveQuery
    \/ RandomMoveQuery

SpecAny == InitAny /\ [][NextAny]_vars

\* The cell arguments tried for malformed calls: the board and one row and
\* column around it.
CallCells == ((-1) .. Height) \X (0 .. Width)

\* The count arguments tried for malformed calls.
CallCounts == ((-1) .. MaxCount) \cup { 9 }

\* An observation no board can produce: a cell outside the board, a negative
\* count, or a count larger than the number of neighbours of the cell.
Malformed(cell, count) ==
    \/ cell \notin Cells
    \/ count < 0
    \/ count > Cardinality(Neighbours(cell))

\* add_knowledge called with a malformed observation: lines 196-228 run as for
\* any other call and the method returns None (op is "error" only when a
\* call raises, which no line of add_knowledge does for these arguments).
MalformedCall ==
    /\ calls < MaxAnyCalls
    /\ \E cell \in CallCells, count \in CallCounts :
         /\ Malformed(cell, count)
         /\ add_knowledge(cell, count)
    /\ op' = "add_knowledge"
    /\ ret' = NoCell
    /\ UNCHANGED <<pc, game_mines, mines_found, target, sen, sen_log>>

NextMalformed == AnyCall \/ MalformedCall

SpecMalformed == InitAny /\ [][NextMalformed]_vars

(***************************************************************************)
(* Minesweeper.__init__, step by step, and the queries on a built board.   *)
(***************************************************************************)
\* The mines arguments tried: every count the grid can hold, and one more.
Targets == 0 .. (Height * Width + 1)

\* Lines 27-28: the values random.randrange(height), randrange(width) give.
SampleCells == (0 .. Height - 1) \X (0 .. Width - 1)

\* A loop that stops one mine short.
PlacementDoneEarly(ms, t) == Cardinality(ms) >= t - 1

\* Line 26: the loop test, negated.
PlacementDone(ms, t) == Cardinality(ms) = t

\* Before the constructor runs no attribute is set.
InitBoard ==
    /\ board = Unset
    /\ game_mines = Unset
    /\ mines_found = Unset
    /\ target \in Targets
    /\ pc = "start"
    /\ moves_made = {}
    /\ safes = {}
    /\ mines = {}
    /\ knowledge = << >>
    /\ last = NoCell
    /\ calls = 0
    /\ op = "init"
    /\ ret = NoCell
    /\ sen = Sentence({}, 0)
    /\ sen_log = << >>

\* Lines 13-23: an empty mine set and a grid of False.
Allocate ==
    /\ pc = "start"
    /\ game_mines' = {}
    /\ board' = {}
    /\ pc' = "place"
    /\ UNCHANGED <<aiVars, last, calls, op, ret, mines_found, target, sen, sen_log>>

\* Lines 26-31: one round of the placement loop.
PlaceMine ==
    /\ pc = "place"
    /\ ~ PlacementDone(game_mines, target)
    /\ \E c \in SampleCells :
         IF c \notin board
         THEN /\ game_mines' = game_mines \cup {c}
              /\ board' = board \cup {c}
         ELSE UNCHANGED <<game_mines, board>>
    /\ UNCHANGED <<aiVars, last, calls, op, ret, pc, mines_found, target, sen, sen_log>>

\* Lines 26 and 34: the loop ends and mines_found is set.
FinishBoard ==
    /\ pc = "place"
    /\ PlacementDone(game_mines, target)
    /\ mines_found' = {}
    /\ pc' = "done"
    /\ UNCHANGED <<aiVars, last, calls, op, ret, game_mines, board, target, sen, sen_log>>

\* A call of nearby_mines(cell) on the built board; ret is the count.
NearbyMinesQuery ==
    /\ pc = "done"
    /\ \E cell \in Cells :
         /\ ret' = nearby_mines(cell)
         /\ last' = cell
    /\ op' = "nearby_mines"
    /\ UNCHANGED <<aiVars, gameVars, calls, pc, sen, sen_log>>

NextBoard == Allocate \/ PlaceMine \/ FinishBoard \/ NearbyMinesQuery

SpecBoard == InitBoard /\ [][NextBoard]_vars

(***************************************************************************)
(* A Sentence object on its own: mark_mine and mark_safe applied to it.    *)
(* sen_log records, for each call, the method, the cell and the sentence   *)
(* before the call.                                                        *)
(***************************************************************************)
\* The cells sentences and arguments are drawn from: the first row.
SentencePool == { c \in Cells : c[1] = 0 }

\* Sentence(cells, count) for every set of pool cells and every count the
\* set allows.
InitSentence ==
    /\ \E cs \in SUBSET SentencePool :
         \E n \in 0 .. Cardinality(cs) : sen = Sentence(cs, n)
    /\ sen_log = << >>
    /\ board = {}
    /\ game_mines = {}
    /\ mines_found = {}
    /\ target = 0
    /\ pc = "idle"
    /\ moves_made = {}
    /\ safes = {}
    /\ mines = {}
    /\ knowledge = << >>
    /\ last = NoCell
    /\ calls = 0
    /\ op = "init"
    /\ ret = NoCell

\* sen.mark_mine(cell).
MarkMineCall ==
    /\ Len(sen_log) < MaxSentenceOps
    /\ \E cell \in SentencePool :
         /\ sen' = SentenceMarkMine(sen, cell)
         /\ sen_log' = Append(sen_log, [op |-> "mark_mine", cell |-> cell, before |-> sen])
    /\ op' = "mark_mine"
    /\ UNCHANGED <<aiVars, gameVars, last, calls, ret, pc>>

\* sen.mark_safe(cell).
MarkSafeCall ==
    /\ Len(sen_log) < MaxSentenceOps
    /\ \E cell \in SentencePool :
         /\ sen' = SentenceMarkSafe(sen, cell)
         /\ sen_log' = Append(sen_log, [op |-> "mark_safe", cell |-> cell, before |-> sen])
    /\ op' = "mark_safe"
    /\ UNCHANGED <<aiVars, gameVars, last, calls, ret, pc>>

NextSentence == MarkMineCall \/ MarkSafeCall

SpecSentence == InitSentence /\ [][NextSentence]_vars

(***************************************************************************)
(* The driver loop of spec section 6: each turn asks make_safe_move(), then *)
(* make_random_move(), and plays the cell it got.  pc is the position of   *)
(* the driver; ret is the cell picked.                                     *)
(***************************************************************************)
\* A fresh agent next to a board with at most MaxFree cells free of mines.
InitGame ==
    /\ board \in { b \in SUBSET Cells : Cardinality(Cells \ b) <= MaxFree }
    /\ game_mines = board
    /\ mines_found = {}
    /\ target = Cardinality(board)
    /\ pc = "safe"
    /\ moves_made = {}
    /\ safes = {}
    /\ mines = {}
    /\ knowledge = << >>
    /\ last = NoCell
    /\ calls = 0
    /\ op = "init"
    /\ ret = NoCell
    /\ sen = Sentence({}, 0)
    /\ sen_log = << >>

\* The driver asks for a safe move.
PickSafe ==
    /\ pc = "safe"
    /\ ret' \in make_safe_move(safes, moves_made)
    /\ op' = "make_safe_move"
    /\ pc' = IF ret' = NoCell THEN "random" ELSE "play"
    /\ UNCHANGED <<aiVars, gameVars, last, calls, sen, sen_log>>

\* No safe move: the driver asks for a random move; None ends the game.
PickRandom ==
    /\ pc = "random"
    /\ ret' = make_random_move(moves_made, mines)
    /\ op' = "make_random_move"
    /\ pc' = IF ret' = NoCell THEN "over" ELSE "play"
    /\ UNCHANGED <<aiVars, gameVars, last, calls, sen, sen_log>>

\* The picked cell is a mine: the game is lost.
PlayMine ==
    /\ pc = "play"
    /\ is_mine(ret)
    /\ pc' = "lost"
    /\ last' = ret
    /\ UNCHANGED <<aiVars, gameVars, calls, op, ret, sen, sen_log>>

\* The picked cell is not a mine: its count is fed to add_knowledge.
PlaySafe ==
    /\ pc = "play"
    /\ ~ is_mine(ret)
    /\ add_knowledge(ret, nearby_mines(ret))
    /\ op' = "add_knowledge"
    /\ pc' = "safe"
    /\ UNCHANGED <<ret, game_mines, mines_found, target, sen, sen_log>>

NextGame == PickSafe \/ PickRandom \/ PlayMine \/ PlaySafe

\* The driver is a sequential loop: it always takes its next step.
SpecGame == InitGame /\ [][NextGame]_vars /\ WF_vars(NextGame)

(***************************************************************************)
(* Properties.                                                             *)
(***************************************************************************)
\* C1: after any sequence of add_knowledge calls from a fresh agent, safes
\* and mines are disjoint: no cell is in both.
SafesMinesDisjoint == safes \cap mines = {}

\* C2: no false-positive mine: under truthful observations of non-mine
\* cells, every cell of the agent's mines set is a real mine of the board.
NoFalsePositiveMine == mines \subseteq board

\* C3: safe moves are safe: under truthful observations of non-mine cells,
\* no cell of safes is a mine of the board.
SafesAreSafe == \A c \in safes : ~ is_mine(c)

\* C4: every sentence of the knowledge base is true of the board: the
\* number of real mines among its cells equals its count.
SentencesTrue ==
    \A k \in DOMAIN knowledge :
        Cardinality({ c \in knowledge[k].cells : is_mine(c) }) = knowledge[k].count

\* C5: closure fixed point: after add_knowledge returns, every sentence's
\* known_mines() is within mines and its known_safes() is within safes.
ClosureFixedPoint ==
    \A k \in DOMAIN knowledge :
        /\ known_mines(knowledge[k]) \subseteq mines
        /\ known_safes(knowledge[k]) \subseteq safes

\* C6: propagation of confirmed facts: after add_knowledge returns, no
\* sentence contains a cell that is in mines or in safes.
ConfirmedFactsPropagated ==
    \A k \in DOMAIN knowledge :
        \A c \in knowledge[k].cells : c \notin mines /\ c \notin safes

\* C7: subset inference: after add_knowledge returns, for two distinct
\* sentences A, B with A.cells a strict subset of B.cells, the sentence
\* (B.cells minus A.cells, B.count minus A.count) is in the knowledge base.
SubsetInference ==
    \A a, b \in DOMAIN knowledge :
        ( /\ a # b
          /\ knowledge[a].cells \subseteq knowledge[b].cells
          /\ knowledge[a].cells # knowledge[b].cells )
        => \E k \in DOMAIN knowledge :
              knowledge[k] = Sentence(knowledge[b].cells \ knowledge[a].cells,
                                      knowledge[b].count - knowledge[a].count)

\* C8: under truthful observations of non-mine cells, no sentence has more
\* mines than cells: count <= number of cells.
CountAtMostCells ==
    \A k \in DOMAIN knowledge :
        knowledge[k].count <= Cardinality(knowledge[k].cells)

\* C9: under truthful observations of distinct non-mine cells, no sentence's
\* count becomes negative.
CountNonNegative == \A k \in DOMAIN knowledge : knowledge[k].count >= 0

\* C10: after any sequence of add_knowledge calls, moves_made is a subset
\* of safes, and the cell of the latest call is in both sets.
MovesMadeSubsetSafes ==
    /\ moves_made \subseteq safes
    /\ last # NoCell => (last \in moves_made /\ last \in safes)

\* C10 witness: two different cells were played, the latest one is in both
\* sets, and the safes set holds more than the played cells.
MovesMadeWitness ==
    /\ calls >= 2
    /\ Cardinality(moves_made) >= 2
    /\ last \in moves_made
    /\ last \in safes
    /\ safes # moves_made

\* C11: make_safe_move() returns a cell of safes that is not in moves_made
\* whenever there is one, returns None exactly when safes equals moves_made,
\* and leaves moves_made, safes, mines and knowledge unchanged.
SafeMoveCorrect ==
    [][ op' = "make_safe_move" =>
          /\ (\E c \in safes : c \notin moves_made)
                => (ret' \in safes /\ ret' \notin moves_made)
          /\ (ret' = NoCell) <=> (safes = moves_made)
          /\ UNCHANGED aiVars ]_vars

\* C11 witness: make_safe_move() has returned one of several unplayed safe
\* cells after at least one observation.
SafeMoveWitness ==
    /\ op = "make_safe_move"
    /\ moves_made # {}
    /\ ret \in safes /\ ret \notin moves_made
    /\ Cardinality(safes \ moves_made) >= 2

\* C12: make_random_move() returns None exactly when every in-bounds cell is
\* in moves_made or in mines; otherwise it returns an in-bounds cell that is
\* in neither; it leaves moves_made, safes, mines and knowledge unchanged.
RandomMoveCorrect ==
    [][ op' = "make_random_move" =>
          /\ (ret' = NoCell) <=> (\A c \in Cells : c \in moves_made \/ c \in mines)
          /\ ret' # NoCell =>
                (ret' \in Cells /\ ret' \notin moves_made /\ ret' \notin mines)
          /\ UNCHANGED aiVars ]_vars

\* C12 witness: make_random_move() has returned None on a board whose cells
\* are all played or known mines.
RandomMoveWitness ==
    /\ op = "make_random_move"
    /\ ret = NoCell
    /\ moves_made # {}
    /\ mines # {}
    /\ moves_made \cup mines = Cells

\* C13: make_random_move() chooses among all eligible cells: in every state,
\* each in-bounds cell that is neither in moves_made nor in mines is a
\* possible return value of the call.
RandomMoveAnyEligible ==
    \A c \in Cells :
        (c \notin moves_made /\ c \notin mines)
            => ENABLED (RandomMoveQuery /\ ret' = c)

\* C14: malformed observations are rejected: add_knowledge with a cell out
\* of bounds, a negative count or a count above the number of neighbours
\* ends in an error and leaves moves_made, safes, mines and knowledge
\* unchanged.
MalformedRejected ==
    [][ MalformedCall => (op' = "error" /\ UNCHANGED aiVars) ]_vars

\* C15: when Minesweeper(height, width, mines) has finished constructing, the
\* mine set has exactly `mines` elements, every mine is in bounds, board[i][j]
\* is True exactly for the cells of the mine set, and mines_found is empty.
BoardConstructed ==
    pc = "done" =>
        /\ Cardinality(game_mines) = target
        /\ game_mines \subseteq Cells
        /\ \A c \in Cells : (c \in board) <=> (c \in game_mines)
        /\ mines_found = {}

\* C15 witness: a board with several mines, not full, has been constructed.
BoardConstructedWitness ==
    /\ pc = "done"
    /\ target >= 2
    /\ Cardinality(game_mines) = target
    /\ game_mines # Cells

\* C16: the constructor enforces its precondition: with mines > height*width
\* it ends in an error and the placement loop never runs.
ConstructorEnforcesPrecondition ==
    target > Height * Width => pc \in {"start", "error"}

\* C17: for every board and in-bounds cell c, nearby_mines(c) is the number
\* of mine cells among the in-bounds cells (i, j) with |i - c.row| <= 1,
\* |j - c.col| <= 1 and (i, j) # c.
NearbyMinesCorrect ==
    op = "nearby_mines" =>
        ret = Cardinality({ m \in Cells \cap game_mines :
                              /\ m # last
                              /\ m[1] - last[1] \in (-1) .. 1
                              /\ m[2] - last[2] \in (-1) .. 1 })

\* C17 witness: nearby_mines was asked for a corner cell that is itself a
\* mine, has a mine next to it, and lies on a board with a mine further away.
NearbyMinesWitness ==
    /\ op = "nearby_mines"
    /\ last = <<0, 0>>
    /\ last \in board
    /\ ret >= 1
    /\ ret < Cardinality(game_mines) - 1

\* The sentence after call i of sen_log.
SentenceAfter(i) == IF i = Len(sen_log) THEN sen ELSE sen_log[i + 1].before

\* C18: Sentence.mark_mine and mark_safe are idempotent: a second call with
\* the same cell leaves the sentence as the first call left it, and a call
\* with an absent cell changes nothing; mark_mine on a present cell removes
\* it and lowers count by exactly 1; mark_safe on a present cell removes it
\* and keeps count.
MarkIdempotent ==
    \A i \in 1 .. Len(sen_log) :
        LET b == sen_log[i].before
            a == SentenceAfter(i)
            c == sen_log[i].cell
        IN /\ c \notin b.cells => a = b
           /\ (c \in b.cells /\ sen_log[i].op = "mark_mine")
                 => (a.cells = b.cells \ {c} /\ a.count = b.count - 1)
           /\ (c \in b.cells /\ sen_log[i].op = "mark_safe")
                 => (a.cells = b.cells \ {c} /\ a.count = b.count)
           /\ (i > 1 /\ sen_log[i - 1].op = sen_log[i].op /\ sen_log[i - 1].cell = c)
                 => a = b

\* C18 witness: mark_mine was called twice in a row with a cell the sentence
\* held, and cells remain in the sentence.
MarkIdempotentWitness ==
    /\ Len(sen_log) >= 2
    /\ sen_log[1].op = "mark_mine"
    /\ sen_log[2].op = "mark_mine"
    /\ sen_log[1].cell = sen_log[2].cell
    /\ sen_log[1].cell \in sen_log[1].before.cells
    /\ sen.cells # {}

\* C19: a zero observation clears the neighbourhood: after
\* add_knowledge(cell, 0), every neighbour of cell that was not in mines
\* before the call is in safes, every cell mines has gained is a known mine
\* of an earlier sentence (none comes from the new sentence), and no
\* neighbour that was undetermined before the call is in any sentence.
ZeroObservationClears ==
    [][ (op' = "add_knowledge" /\ add_knowledge(last', 0)) =>
            /\ \A n \in Neighbours(last') : n \notin mines => n \in safes'
            /\ \A m \in mines' \ mines :
                  \E k \in DOMAIN knowledge : m \in known_mines(knowledge[k])
            /\ \A n \in Neighbours(last') :
                  (n \notin mines /\ n \notin safes)
                     => \A k \in DOMAIN knowledge' : n \notin knowledge'[k].cells ]_vars

\* C19 witness: a second call, with count 0, has made every neighbour of its
\* cell safe while an earlier sentence still has cells and a positive count.
ZeroObservationWitness ==
    /\ op = "add_knowledge"
    /\ calls >= 2
    /\ mines = {}
    /\ knowledge[Len(knowledge)] = Sentence({}, 0)
    /\ Neighbours(last) \subseteq safes
    /\ Neighbours(last) \cap moves_made = {}
    /\ knowledge[1].cells # {}
    /\ knowledge[1].count > 0

\* The number of turns started so far.
Turns == calls + (IF pc \in {"play", "lost"} THEN 1 ELSE 0)

\* C20: the driver loop makes progress and ends: every picked cell is new to
\* moves_made, moves_made grows by one cell each turn that is not lost, no
\* game takes more than height*width turns, the game reaches a state where
\* it is lost or both queries returned None, and in the latter every cell
\* is in moves_made or mines.
DriverEnds ==
    /\ [](pc = "play" => ret \notin moves_made)
    /\ [](Cardinality(moves_made) = calls)
    /\ [](Turns <= Height * Width)
    /\ [](pc = "over" => \A c \in Cells : c \in moves_made \/ c \in mines)
    /\ <>(pc \in {"lost", "over"})

\* C20 witness: a game of several turns, with a safe move among them, has
\* ended with both queries returning None.
DriverEndsWitness ==
    /\ pc = "over"
    /\ calls >= 3
    /\ mines # {}
    /\ \E k \in DOMAIN knowledge : k > 1 /\ knowledge[k] = Sentence({}, 0)

====
